---- MODULE Spec2Model ----
(***************************************************************************)
(* A model of download.py: the prompts of the CLI and parse_multiple_urls,  *)
(* the --list-formats path, the cached URL classification (get_url_info    *)
(* behind functools.lru_cache), the thread pool of                         *)
(* download_youtube_content, the retry loop of download_single_video and   *)
(* the download summary.                                                   *)
(*                                                                         *)
(* SpecMain follows the CLI from its start to the worker-count prompt,     *)
(* SpecCli the worker-count prompt, Spec a call of                         *)
(* download_youtube_content.                                               *)
(*                                                                         *)
(* Text is modelled as a sequence of tokens.  A URL is cut into the        *)
(* tokens the code looks for ("/@", "/c/", "?", "&", "=", "#", "list" ...) *)
(* and "x" for any other character; an answer typed at a prompt is a       *)
(* sequence of single characters.                                          *)
(***************************************************************************)
EXTENDS Integers, Sequences, FiniteSets, TLC

VARIABLES
    pc,               \* position of the main thread
    urls,             \* the list handed to download_youtube_content
    workers_input,    \* the raw answer to the worker-count prompt
    prompted,         \* whether the worker-count prompt was shown
    max_workers,      \* the pool size
    pass,             \* classification pass of the main thread (1: playlists, 2: channels)
    idx,              \* next index of urls in that pass
    cache,            \* the lru_cache of get_url_info, least recently used first
    calls,            \* extract_info calls made by get_url_info, per URL
    last_call,        \* the last get_url_info body run: url, library response, result
    submitted,        \* number of futures submitted to the executor
    queue,            \* the executor's work queue (task indexes, FIFO)
    threads,          \* worker threads the executor has created
    task,             \* per entry of urls: the state of its download_single_video call
    early,            \* futures finished before as_completed started
    late,             \* futures finished after it, in completion order
    results,          \* the results list of download_youtube_content
    successful_downloads,
    failed_downloads,
    raised_at,        \* source line at which the run raised, 0 if it has not
    acc,              \* which thread touched which piece of state, and how
    list_formats,     \* the list_formats argument of download_youtube_content
    makedirs,         \* whether os.makedirs(output_path) was called
    listed,           \* the get_available_formats calls made, in order
    argv,             \* sys.argv[1:]
    user_input,       \* the URL text the CLI parses
    urls_list,        \* the lines kept in multi-line mode
    invalid_count,    \* entries parse_multiple_urls skipped
    inputs,           \* the input() calls made so far: prompt and raw answer
    typed,            \* the entries the user typed, without what separates them
    exit_status,      \* << n >> once exit(n) was called, << >> before
    output_dir,
    audio_only

\* the state of the CLI before download_youtube_content is called
cliVars == << argv, user_input, urls_list, invalid_count, inputs, typed, exit_status,
              output_dir, audio_only >>

\* the state of the --list-formats path of download_youtube_content
fmtVars == << list_formats, makedirs, listed >>

vars == << pc, urls, workers_input, prompted, max_workers, pass, idx, cache, calls,
           last_call, submitted, queue, threads, task, early, late, results,
           successful_downloads, failed_downloads, raised_at, acc, fmtVars, cliVars >>

(***************************************************************************)
(* Program constants.                                                      *)
(***************************************************************************)
MAX_RETRIES == 3
RETRY_DELAY == 2
MAX_CONCURRENT_WORKERS == 5
DEFAULT_CONCURRENT_WORKERS == 3
maxsize == 128

(***************************************************************************)
(* Bounds of the model.                                                    *)
(***************************************************************************)
MaxUrls == 2
MaxWorkers == 2
MaxAnswerLen == 3

(***************************************************************************)
(* Helpers on sequences.                                                   *)
(***************************************************************************)
Range(s) == { s[i] : i \in 1..Len(s) }

Min(a, b) == IF a < b THEN a ELSE b

Max(a, b) == IF a > b THEN a ELSE b

\* index of the first occurrence of token t in s, 0 if there is none
IndexOf(s, t) ==
    IF \E i \in 1..Len(s) : s[i] = t
    THEN CHOOSE i \in 1..Len(s) : s[i] = t /\ \A j \in 1..(i-1) : s[j] # t
    ELSE 0

\* Python's `pat in s` on strings: pat occurs as a contiguous run of s
Contains(s, pat) ==
    \E i \in 0..(Len(s) - Len(pat)) : \A k \in 1..Len(pat) : s[i + k] = pat[k]

RECURSIVE SeqsUpTo(_, _)
SeqsUpTo(S, n) ==
    IF n = 0 THEN { <<>> }
    ELSE LET shorter == SeqsUpTo(S, n - 1)
         IN  shorter \cup { Append(s, c) : s \in { t \in shorter : Len(t) = n - 1 }, c \in S }

(***************************************************************************)
(* The worker-count prompt of the CLI (download.py 439-447).               *)
(***************************************************************************)
AnswerChars == { " ", "-", "+", "0", "2", "9", "x" }

DigitChars == { "0", "2", "9" }

DigitValue(c) == CASE c = "0" -> 0 [] c = "2" -> 2 [] c = "9" -> 9 [] OTHER -> 0

WhiteSpace == { " ", "\t", "\n" }

\* str.strip(): leading and trailing white space removed
RECURSIVE strip(_)
strip(s) ==
    IF s = <<>> THEN s
    ELSE IF Head(s) \in WhiteSpace THEN strip(Tail(s))
    ELSE IF s[Len(s)] \in WhiteSpace THEN strip(SubSeq(s, 1, Len(s) - 1))
    ELSE s

\* the digits of an int() literal, its sign removed
Unsigned(s) == IF s # <<>> /\ Head(s) \in { "-", "+" } THEN Tail(s) ELSE s

\* int(s) raises ValueError unless s is an optional sign and one or more digits
RaisesValueError(s) ==
    LET d == Unsigned(strip(s))
    IN  d = <<>> \/ \E i \in 1..Len(d) : d[i] \notin DigitChars

RECURSIVE DigitsValue(_)
DigitsValue(d) ==
    IF d = <<>> THEN 0
    ELSE 10 * DigitsValue(SubSeq(d, 1, Len(d) - 1)) + DigitValue(d[Len(d)])

\* int(s) for an s that is a literal
int(s) ==
    LET t == strip(s)
    IN  IF t # <<>> /\ Head(t) = "-" THEN 0 - DigitsValue(Unsigned(t))
        ELSE DigitsValue(Unsigned(t))

\* (mutant) the lower clamp forgotten
ClampWorkersUpperOnly(n) == Min(MAX_CONCURRENT_WORKERS, n)

\* max(1, min(MAX_CONCURRENT_WORKERS, n)), line 445
ClampWorkers(n) == Max(1, Min(MAX_CONCURRENT_WORKERS, n))

\* lines 439-447: the pool size for n URLs and the raw answer typed at the
\* prompt (which is only shown when n > 1)
CliMaxWorkers(n, raw) ==
    IF n > 1
    THEN LET answer == strip(raw)
         IN  IF answer = <<>> THEN ClampWorkers(DEFAULT_CONCURRENT_WORKERS)
             ELSE IF RaisesValueError(answer) THEN DEFAULT_CONCURRENT_WORKERS
             ELSE ClampWorkers(int(answer))
    ELSE 1

(***************************************************************************)
(* URL classification (download.py 17-84).                                 *)
(***************************************************************************)
\* urlparse(url).query: what follows the first "?" of the part before the
\* first "#"
urlparse_query(url) ==
    LET h      == IndexOf(url, "#")
        noFrag == IF h = 0 THEN url ELSE SubSeq(url, 1, h - 1)
        q      == IndexOf(noFrag, "?")
    IN  IF q = 0 THEN <<>> ELSE SubSeq(noFrag, q + 1, Len(noFrag))

\* str.split("&"): the fields of a query string
RECURSIVE SplitAmp(_)
SplitAmp(s) ==
    LET a == IndexOf(s, "&")
    IN  IF a = 0 THEN << s >>
        ELSE << SubSeq(s, 1, a - 1) >> \o SplitAmp(SubSeq(s, a + 1, Len(s)))

\* parse_qs(query) with its defaults (keep_blank_values=False,
\* strict_parsing=False): the names of the fields "name=value" whose value is
\* not blank; a field without "=" or with a blank value is dropped
parse_qs(query) ==
    LET fields == SplitAmp(query)
    IN  { SubSeq(fields[i], 1, IndexOf(fields[i], "=") - 1) :
            i \in { k \in 1..Len(fields) :
                      /\ IndexOf(fields[k], "=") # 0
                      /\ IndexOf(fields[k], "=") < Len(fields[k]) } }

\* '/@' in url or '/channel/' in url or '/c/' in url or '/user/' in url
HasChannelPath(url) ==
    \/ Contains(url, << "/@" >>)
    \/ Contains(url, << "/channel/" >>)
    \/ Contains(url, << "/c/" >>)
    \/ Contains(url, << "/user/" >>)

\* (mutant) the list parameter tested before the channel path
ClassifyOnNoneListFirst(url) ==
    IF << "list" >> \in parse_qs(urlparse_query(url)) THEN "playlist"
    ELSE IF HasChannelPath(url) THEN "channel"
    ELSE "video"

\* lines 41-49: extract_info returned None
ClassifyOnNone(url) ==
    IF HasChannelPath(url) THEN "channel"
    ELSE IF << "list" >> \in parse_qs(urlparse_query(url)) THEN "playlist"
    ELSE "video"

\* lines 61-70: extract_info raised
ClassifyOnException(url) ==
    IF HasChannelPath(url) THEN "channel"
    ELSE IF << "list" >> \in parse_qs(urlparse_query(url)) THEN "playlist"
    ELSE "video"

\* What ydl.extract_info(url, download=False) can do: raise, return None, or
\* return a dict.  Of the dict only '_type' (absent: "") and whether
\* 'uploader_id' is truthy are read.  '_type' is whatever the library puts
\* there; with extract_flat it hands back an unresolved 'url' result as is.
LibraryTypes == { "", "video", "playlist", "url" }

ExtractInfoResponses ==
    { [ kind |-> "raise", type |-> "", uploader_id |-> FALSE ],
      [ kind |-> "none",  type |-> "", uploader_id |-> FALSE ] }
    \cup [ kind : { "dict" }, type : LibraryTypes, uploader_id : BOOLEAN ]

EmptyDict == [ kind |-> "empty", type |-> "", uploader_id |-> FALSE ]

\* video_info.get('_type', 'video'), line 51
InfoType(video_info) == IF video_info.type = "" THEN "video" ELSE video_info.type

\* the body of get_url_info, lines 29-70, for one response of the library:
\* the (content_type, info_dict) it returns
get_url_info(url, resp) ==
    IF resp.kind = "raise" THEN [ type |-> ClassifyOnException(url), info |-> EmptyDict ]
    ELSE IF resp.kind = "none" THEN [ type |-> ClassifyOnNone(url), info |-> EmptyDict ]
    ELSE IF InfoType(resp) = "playlist"
         THEN IF resp.uploader_id /\ HasChannelPath(url)
              THEN [ type |-> "channel", info |-> resp ]
              ELSE [ type |-> "playlist", info |-> resp ]
    ELSE [ type |-> InfoType(resp), info |-> resp ]

(***************************************************************************)
(* The URLs of the model.                                                  *)
(***************************************************************************)
WatchUrl == << "youtube.com", "/watch", "?", "v", "=", "x" >>

ChannelListUrl == << "youtube.com", "/@", "x", "?", "list", "=", "x" >>

\* single URLs that exercise every branch of the classification by text
ClassifyUrls ==
    { WatchUrl,
      ChannelListUrl,
      << "youtube.com", "/playlist", "?", "list", "=", "x" >>,
      << "youtube.com", "/@", "x" >>,
      << "youtube.com", "/channel/", "x" >>,
      << "youtube.com", "/c/", "x" >>,
      << "youtube.com", "/user/", "x" >>,
      << "youtube.com", "/watch", "?", "v", "=", "x", "&", "list", "=", "x" >>,
      << "youtube.com", "/watch", "?", "v", "=", "x", "&", "list", "=" >>,
      << "youtube.com", "/watch", "?", "v", "=", "x", "&", "list" >>,
      << "youtube.com", "/watch", "?", "v", "=", "list" >>,
      << "youtube.com", "/watch", "?", "mylist", "=", "x" >>,
      << "youtube.com", "/watch", "#", "?", "list", "=", "x" >>,
      << "youtube.com", "/watch", "?", "v", "=", "x", "#", "list", "=", "x" >>,
      << "youtu.be/", "x" >> }

\* the URLs of the lists that are run through the pool
PoolUrls == { WatchUrl, ChannelListUrl }

\* n distinct watch URLs: the k-th has a video id of k characters
DistinctUrls(n) ==
    [ k \in 1..n |-> << "youtube.com", "/watch", "?", "v", "=" >> \o [ j \in 1..k |-> "x" ] ]

\* the lists of URLs a run starts from: every classification URL alone, every
\* list of 1..MaxUrls pool URLs (duplicates included), and two long lists of
\* distinct URLs, one that fills the cache exactly and one that overflows it
UrlLists ==
    { << u >> : u \in ClassifyUrls }
    \cup (SeqsUpTo(PoolUrls, MaxUrls) \ { <<>> })
    \cup { DistinctUrls(maxsize), DistinctUrls(maxsize + 1) }

\* The pool is explored for lists of at most MaxUrls URLs; a longer list is
\* followed through both classification passes only.
InPoolBound(us) == Len(us) <= MaxUrls

\* The library's answers to the classification call are explored in full for
\* a single URL; in a run of several URLs it gives no information.
ClassifyResponses(us) ==
    IF Len(us) = 1 THEN ExtractInfoResponses
    ELSE { [ kind |-> "raise", type |-> "", uploader_id |-> FALSE ] }

\* the pool sizes download_youtube_content is called with: what the CLI can
\* hand over for that many URLs, up to MaxWorkers
PoolSizes(us) ==
    { w \in 1..MAX_CONCURRENT_WORKERS : w <= MaxWorkers /\ (Len(us) = 1 => w = 1) }

(***************************************************************************)
(* parse_multiple_urls (download.py 87-122).                               *)
(***************************************************************************)
\* the characters [,\s\n\t] matches, among those typed
Separators == { ",", " ", "\t", "\n" }

\* re.split(r'[,\s\n\t]+', s): the pieces of s between the maximal runs of
\* separators, an empty piece before a leading run and after a trailing one
RECURSIVE re_split(_)
re_split(s) ==
    IF \A k \in 1..Len(s) : s[k] \notin Separators THEN << s >>
    ELSE LET i == CHOOSE k \in 1..Len(s) :
                      s[k] \in Separators /\ \A j \in 1..(k - 1) : s[j] \notin Separators
             j == CHOOSE k \in (i + 1)..(Len(s) + 1) :
                      /\ \A n \in i..(k - 1) : s[n] \in Separators
                      /\ k <= Len(s) => s[k] \notin Separators
         IN  << SubSeq(s, 1, i - 1) >> \o re_split(SubSeq(s, j, Len(s)))

\* the tokens whose text starts with "/"
SlashTokens == { "/watch", "/playlist", "/@", "/c/", "/channel/", "/user/" }

\* 'youtube.com' in url or 'youtu.be' in url (lines 104-105); the token
\* "youtu.be/" holds the text 'youtu.be'
HasYouTubeDomain(url) ==
    \/ Contains(url, << "youtube.com" >>)
    \/ Contains(url, << "youtu.be" >>)
    \/ Contains(url, << "youtu.be/" >>)

\* the second operand of the test (lines 106-112); the text 'youtu.be/' is the
\* token "youtu.be/" or the token "youtu.be" before a token that starts with "/"
HasYouTubePath(url) ==
    \/ Contains(url, << "/watch", "?" >>)
    \/ Contains(url, << "/playlist", "?" >>)
    \/ Contains(url, << "/@" >>)
    \/ Contains(url, << "/channel/" >>)
    \/ Contains(url, << "/c/" >>)
    \/ Contains(url, << "/user/" >>)
    \/ Contains(url, << "youtu.be/" >>)
    \/ \E k \in 1..(Len(url) - 1) : url[k] = "youtu.be" /\ url[k + 1] \in SlashTokens

\* (mutant) the domain alone makes a URL valid
IsYouTubeUrlByDomain(url) == HasYouTubeDomain(url)

\* the validation of lines 104-112
IsYouTubeUrl(url) == HasYouTubeDomain(url) /\ HasYouTubePath(url)

IsSkipped(url) == ~IsYouTubeUrl(url) /\ url # <<>>

\* lines 98-122: the valid URLs in the order of the input, and the number of
\* entries skipped
parse_multiple_urls(input_string) ==
    LET pieces == re_split(strip(input_string))
        stripped == [ k \in 1..Len(pieces) |-> strip(pieces[k]) ]
        entries == SelectSeq(stripped, LAMBDA u : u # <<>>)
    IN  [ valid_urls |-> SelectSeq(entries, IsYouTubeUrl),
          invalid_count |-> Len(SelectSeq(entries, IsSkipped)) ]

(***************************************************************************)
(* What is typed at the URL prompts.                                       *)
(***************************************************************************)
ShortUrl == << "youtu.be/", "x" >>

\* the entries a user types: three URLs the check accepts, a YouTube domain
\* without a path, a path without the domain, a short-link domain without
\* its slash, and a word
Words ==
    { WatchUrl, ChannelListUrl, ShortUrl,
      << "youtube.com", "x" >>, << "/watch", "?", "v", "=", "x" >>,
      << "youtu.be", "?", "x" >>, << "x" >> }

\* what is typed between two entries, and before the first and after the last
Between == { << "," >>, << "\n" >>, << "\t" >>, << ",", " " >> }

Leading == { <<>>, << "," >> }

Trailing == { <<>>, << " " >> }

\* the texts of n entries and what separates them, with the entries
RECURSIVE Typed(_)
Typed(n) ==
    IF n = 0 THEN { [ text |-> <<>>, words |-> <<>> ] }
    ELSE IF n = 1 THEN { [ text |-> w, words |-> << w >> ] : w \in Words }
    ELSE { [ text |-> t.text \o b \o w, words |-> Append(t.words, w) ] :
              t \in Typed(n - 1), b \in Between, w \in Words }

\* the answers to "Enter YouTube URL(s): ": up to MaxUrls entries
UrlAnswers ==
    { [ text |-> l \o t.text \o r, words |-> t.words ] :
         t \in UNION { Typed(n) : n \in 0..MaxUrls }, l \in Leading, r \in Trailing }

\* the answers to "URL n: " in multi-line mode: nothing, blanks, a comma, or
\* one entry that a blank may follow
LineAnswers ==
    { [ text |-> t.text \o r, words |-> t.words ] :
         t \in Typed(0) \cup Typed(1), r \in Trailing }
    \cup { [ text |-> << "," >>, words |-> <<>> ] }

\* '\n'.join(lines), line 406
RECURSIVE join(_)
join(lines) ==
    IF lines = <<>> THEN <<>>
    ELSE IF Len(lines) = 1 THEN lines[1]
    ELSE lines[1] \o << "\n" >> \o join(Tail(lines))

\* (mutant) the test of line 414 never true
NoValidUrlsNever(found) == FALSE

\* `not urls`, line 414
NoValidUrls(found) == found = <<>>

(***************************************************************************)
(* functools.lru_cache(maxsize=128) around get_url_info (line 17).         *)
(***************************************************************************)
CacheIndex(c, url) ==
    IF \E k \in 1..Len(c) : c[k].url = url
    THEN CHOOSE k \in 1..Len(c) : c[k].url = url
    ELSE 0

\* a hit makes the entry the most recently used
CacheTouch(c, k) == SubSeq(c, 1, k - 1) \o SubSeq(c, k + 1, Len(c)) \o << c[k] >>

\* (mutant) the eviction one entry too early
CacheInsertEvictsEarly(c, url, res) ==
    IF CacheIndex(c, url) # 0 THEN c
    ELSE IF Len(c) + 1 >= maxsize THEN Append(Tail(c), [ url |-> url, res |-> res ])
    ELSE Append(c, [ url |-> url, res |-> res ])

\* a miss stores the result, evicting the least recently used entry of a full cache
CacheInsert(c, url, res) ==
    IF CacheIndex(c, url) # 0 THEN c
    ELSE IF Len(c) >= maxsize THEN Append(Tail(c), [ url |-> url, res |-> res ])
    ELSE Append(c, [ url |-> url, res |-> res ])

NoCall == [ url |-> <<>>, resp |-> EmptyDict, res |-> [ type |-> "", info |-> EmptyDict ] ]

\* one call get_url_info(url) through the cache
CachedGetUrlInfo(url) ==
    IF CacheIndex(cache, url) # 0
    THEN /\ cache' = CacheTouch(cache, CacheIndex(cache, url))
         /\ UNCHANGED << calls, last_call >>
    ELSE \E resp \in ClassifyResponses(urls) :
            LET res == get_url_info(url, resp)
            IN  /\ cache' = CacheInsert(cache, url, res)
                /\ calls' = [ calls EXCEPT ![url] = @ + 1 ]
                /\ last_call' = [ url |-> url, resp |-> resp, res |-> res ]

(***************************************************************************)
(* download_single_video (download.py 144-285).                            *)
(***************************************************************************)
\* what ydl.extract_info(url, download=True) can do in one attempt: raise,
\* return None, return a playlist dict with no entries or with some, or
\* return a video dict
DownloadOutcomes == { "raise", "none", "playlist_empty", "playlist", "video" }

\* The attempts are explored in full for a single URL; in a run of several
\* URLs a playlist that has entries is left out, the code treating it as it
\* treats a video.
PoolOutcomes(us) ==
    IF Len(us) = 1 THEN DownloadOutcomes ELSE DownloadOutcomes \ { "playlist" }

NoResult == [ url |-> <<>>, success |-> FALSE, message |-> "" ]

\* last_exception: the attempt whose exception was caught last, 0 for None;
\* outcomes: what ydl.extract_info did at each attempt made so far (history)
NewTask ==
    [ st |-> "new", attempt |-> 0, last_exception |-> 0, slept |-> <<>>,
      outcomes |-> <<>>, result |-> NoResult ]

\* the call in state t after ydl.extract_info, line 237, has done outcome
Observed(t, outcome) == [ t EXCEPT !.outcomes = Append(@, outcome) ]

\* (mutant) the message tells whether another download had finished before
ReturnedAfterOthers(t, url, success, message) ==
    [ t EXCEPT !.st = "done",
               !.result = [ url |-> url, success |-> success,
                            message |-> IF \E j \in 1..Len(task) : task[j].st = "done"
                                        THEN "after another download"
                                        ELSE message ] ]

Returned(t, url, success, message) ==
    [ t EXCEPT !.st = "done",
               !.result = [ url |-> url, success |-> success, message |-> message ] ]

\* (mutant) the retry test off by one: attempt <= MAX_RETRIES
RetryLoopStepOffByOne(t, url, outcome) ==
    IF outcome = "none"
    THEN Returned(Observed(t, outcome), url, FALSE, "Failed to extract video information")
    ELSE IF outcome = "playlist_empty"
    THEN Returned(Observed(t, outcome), url, FALSE, "appears to be empty or private")
    ELSE IF outcome \in { "playlist", "video" }
    THEN Returned(Observed(t, outcome), url, TRUE, "download completed")
    ELSE LET caught == [ Observed(t, outcome) EXCEPT !.last_exception = t.attempt ]
         IN  IF t.attempt <= MAX_RETRIES
             THEN [ caught EXCEPT
                      !.slept = Append(@, RETRY_DELAY * (2 ^ (t.attempt - 1))),
                      !.attempt = @ + 1 ]
             ELSE Returned(caught, url, FALSE, "Failed after 3 attempts")

\* (mutant) the same delay after every failed attempt
RetryLoopStepConstantDelay(t, url, outcome) ==
    IF outcome = "none"
    THEN Returned(Observed(t, outcome), url, FALSE, "Failed to extract video information")
    ELSE IF outcome = "playlist_empty"
    THEN Returned(Observed(t, outcome), url, FALSE, "appears to be empty or private")
    ELSE IF outcome \in { "playlist", "video" }
    THEN Returned(Observed(t, outcome), url, TRUE, "download completed")
    ELSE LET caught == [ Observed(t, outcome) EXCEPT !.last_exception = t.attempt ]
         IN  IF t.attempt < MAX_RETRIES
             THEN IF t.attempt + 1 <= MAX_RETRIES
                  THEN [ caught EXCEPT
                           !.slept = Append(@, RETRY_DELAY),
                           !.attempt = @ + 1 ]
                  ELSE Returned(caught, url, FALSE, "Unexpected error")
             ELSE Returned(caught, url, FALSE, "Failed after 3 attempts")

\* (mutant) a None from the library is retried like an exception
RetryLoopStepRetriesNone(t, url, outcome) ==
    IF outcome = "none" /\ t.attempt = MAX_RETRIES
    THEN Returned(Observed(t, outcome), url, FALSE, "Failed to extract video information")
    ELSE IF outcome = "playlist_empty"
    THEN Returned(Observed(t, outcome), url, FALSE, "appears to be empty or private")
    ELSE IF outcome \in { "playlist", "video" }
    THEN Returned(Observed(t, outcome), url, TRUE, "download completed")
    ELSE LET caught == [ Observed(t, outcome) EXCEPT !.last_exception = t.attempt ] \* outcome "none" included
         IN  IF t.attempt < MAX_RETRIES
             THEN IF t.attempt + 1 <= MAX_RETRIES
                  THEN [ caught EXCEPT
                           !.slept = Append(@, RETRY_DELAY * (2 ^ (t.attempt - 1))),
                           !.attempt = @ + 1 ]
                  ELSE Returned(caught, url, FALSE, "Unexpected error")
             ELSE Returned(caught, url, FALSE, "Failed after 3 attempts")

\* (mutant) the exception of the last attempt is raised again
RetryLoopStepReraises(t, url, outcome) ==
    IF outcome = "none"
    THEN Returned(Observed(t, outcome), url, FALSE, "Failed to extract video information")
    ELSE IF outcome = "playlist_empty"
    THEN Returned(Observed(t, outcome), url, FALSE, "appears to be empty or private")
    ELSE IF outcome \in { "playlist", "video" }
    THEN Returned(Observed(t, outcome), url, TRUE, "download completed")
    ELSE LET caught == [ Observed(t, outcome) EXCEPT !.last_exception = t.attempt ]
         IN  IF t.attempt < MAX_RETRIES
             THEN IF t.attempt + 1 <= MAX_RETRIES
                  THEN [ caught EXCEPT
                           !.slept = Append(@, RETRY_DELAY * (2 ^ (t.attempt - 1))),
                           !.attempt = @ + 1 ]
                  ELSE Returned(caught, url, FALSE, "Unexpected error")
             ELSE [ caught EXCEPT !.st = "raised" ]

\* one iteration of the retry loop, lines 230-285, for the call in state t:
\* the attempt's outcome either ends the call with a result or, for an
\* exception before the last attempt, sleeps the backoff delay and goes on
RetryLoopStep(t, url, outcome) ==
    IF outcome = "none"
    THEN Returned(Observed(t, outcome), url, FALSE, "Failed to extract video information")
    ELSE IF outcome = "playlist_empty"
    THEN Returned(Observed(t, outcome), url, FALSE, "appears to be empty or private")
    ELSE IF outcome \in { "playlist", "video" }
    THEN Returned(Observed(t, outcome), url, TRUE, "download completed")
    ELSE LET caught == [ Observed(t, outcome) EXCEPT !.last_exception = t.attempt ]
         IN  IF t.attempt < MAX_RETRIES
             THEN IF t.attempt + 1 <= MAX_RETRIES
                  THEN [ caught EXCEPT
                           !.slept = Append(@, RETRY_DELAY * (2 ^ (t.attempt - 1))),
                           !.attempt = @ + 1 ]
                  ELSE Returned(caught, url, FALSE, "Unexpected error")
             ELSE Returned(caught, url, FALSE, "Failed after 3 attempts")

\* (mutant) the options dict built once at module level and updated by every call
CallAccessesSharedOptions(i) ==
    { [ loc |-> "downloader_options", of |-> 0, who |-> i, write |-> TRUE ],
      [ loc |-> "last_exception",     of |-> i, who |-> i, write |-> TRUE ],
      [ loc |-> "lru_cache",          of |-> 0, who |-> i, write |-> TRUE ],
      [ loc |-> "output_path",        of |-> 0, who |-> i, write |-> FALSE ] }

\* The state one call touches.  Everything it writes is its own (its locals
\* and its future), except the lru_cache, which every get_url_info call
\* reads and updates; the output path it only reads.
CallAccesses(i) ==
    { [ loc |-> "downloader_options", of |-> i, who |-> i, write |-> TRUE ],
      [ loc |-> "last_exception",     of |-> i, who |-> i, write |-> TRUE ],
      [ loc |-> "lru_cache",          of |-> 0, who |-> i, write |-> TRUE ],
      [ loc |-> "output_path",        of |-> 0, who |-> i, write |-> FALSE ] }

(***************************************************************************)
(* ThreadPoolExecutor(max_workers) as used in lines 339-347.               *)
(***************************************************************************)
Running == { i \in 1..Len(urls) : task[i].st = "running" }

\* (mutant) a thread per submitted task
ThreadsAfterSubmitUnbounded(n) == n + 1

\* submit() starts a new worker thread while fewer than max_workers exist
ThreadsAfterSubmit(n) == IF n < max_workers THEN n + 1 ELSE n

\* (mutant) the loop left after the first result
AllYieldedFirst(n) == n >= 1

\* the for loop over as_completed ends, and with it the with block, when
\* every submitted future has been yielded
AllYielded(n) == n = Len(urls)

\* (mutant) pending work cancelled once a download has failed
CanStartUnlessFailed(i) ==
    /\ queue # <<>>
    /\ Head(queue) = i
    /\ Cardinality(Running) < threads
    /\ \A j \in 1..Len(urls) : task[j].st = "done" => task[j].result.success

\* a queued work item is taken by a worker thread that runs nothing else
CanStart(i) ==
    /\ queue # <<>>
    /\ Head(queue) = i
    /\ Cardinality(Running) < threads

(***************************************************************************)
(* The initial state of a run: download_youtube_content is called with a   *)
(* list of URLs and a pool size.                                           *)
(***************************************************************************)
\* the URL prompts of the CLI are not followed: their state stays as it is
\* when the program starts
CliUnused ==
    /\ argv = <<>>
    /\ user_input = <<>>
    /\ urls_list = <<>>
    /\ invalid_count = 0
    /\ inputs = <<>>
    /\ typed = <<>>
    /\ exit_status = <<>>
    /\ output_dir = <<>>
    /\ audio_only = FALSE

Init ==
    /\ urls \in UrlLists
    /\ pc = "call"
    /\ workers_input = <<>>
    /\ prompted = FALSE
    /\ max_workers \in PoolSizes(urls)
    /\ pass = 1
    /\ idx = 1
    /\ cache = <<>>
    /\ calls = [ u \in Range(urls) |-> 0 ]
    /\ last_call = NoCall
    /\ submitted = 0
    /\ queue = <<>>
    /\ threads = 0
    /\ task = [ i \in 1..Len(urls) |-> NewTask ]
    /\ early = {}
    /\ late = <<>>
    /\ results = <<>>
    /\ successful_downloads = <<>>
    /\ failed_downloads = <<>>
    /\ raised_at = 0
    /\ acc = {}
    /\ list_formats \in BOOLEAN
    /\ makedirs = FALSE
    /\ listed = <<>>
    /\ CliUnused

(***************************************************************************)
(* The main thread.                                                        *)
(***************************************************************************)
\* lines 439-447: the worker-count prompt
AskWorkers ==
    /\ pc = "ask_workers"
    /\ \E raw \in (IF Len(urls) > 1 THEN SeqsUpTo(AnswerChars, MaxAnswerLen) ELSE { <<>> }) :
          /\ workers_input' = raw
          /\ max_workers' = CliMaxWorkers(Len(urls), raw)
    /\ prompted' = (Len(urls) > 1)
    /\ pc' = "call"
    /\ UNCHANGED << urls, pass, idx, cache, calls, last_call, submitted, queue, threads,
                    task, early, late, results, successful_downloads, failed_downloads,
                    raised_at, acc >>
    /\ UNCHANGED << fmtVars, cliVars >>

\* (mutant) the listing without its try/except
get_available_formats_uncaught(url, raises) ==
    [ url |-> url, printed |-> FALSE, raised |-> raises ]

\* lines 125-141: ydl.extract_info(url, download=False) lists the formats or
\* raises; an exception is caught and printed, never raised to the caller
get_available_formats(url, raises) ==
    [ url |-> url, printed |-> raises, raised |-> FALSE ]

\* lines 302-308: with list_formats the formats of the first URL are listed
\* and download_youtube_content returns
ListFormats ==
    /\ pc = "call"
    /\ list_formats
    /\ \E raises \in BOOLEAN :
          LET listing == get_available_formats(urls[1], raises)
          IN  /\ listed' = Append(listed, listing)
              /\ pc' = IF listing.raised THEN "raised" ELSE "listed"
              /\ raised_at' = IF listing.raised THEN 307 ELSE raised_at
    /\ acc' = acc \cup { [ loc |-> "output_path", of |-> 0, who |-> 0, write |-> TRUE ] }
    /\ UNCHANGED << urls, workers_input, prompted, max_workers, pass, idx, cache, calls,
                    last_call, submitted, queue, threads, task, early, late, results,
                    successful_downloads, failed_downloads >>
    /\ UNCHANGED << list_formats, makedirs, cliVars >>

\* lines 302-315, list_formats being false: download_youtube_content sets its output path and creates
\* the directory
EnterDownload ==
    /\ pc = "call"
    /\ ~list_formats
    /\ makedirs' = TRUE
    /\ pc' = "classify"
    /\ UNCHANGED workers_input
    /\ acc' = acc \cup { [ loc |-> "output_path", of |-> 0, who |-> 0, write |-> TRUE ] }
    /\ UNCHANGED << urls, prompted, max_workers, pass, idx, cache, calls, last_call,
                    submitted, queue, threads, task, early, late, results,
                    successful_downloads, failed_downloads, raised_at >>
    /\ UNCHANGED << list_formats, listed, cliVars >>

\* lines 317-320: get_content_type(url) for every url, once to count the
\* playlists and once more to count the channels
Classify ==
    /\ pc = "classify"
    /\ CachedGetUrlInfo(urls[idx])
    /\ acc' = acc \cup { [ loc |-> "lru_cache", of |-> 0, who |-> 0, write |-> TRUE ] }
    /\ IF idx < Len(urls)
       THEN idx' = idx + 1 /\ UNCHANGED << pass, pc >>
       ELSE IF pass = 1
       THEN idx' = 1 /\ pass' = 2 /\ UNCHANGED pc
       ELSE pc' = "submit" /\ UNCHANGED << pass, idx >>
    /\ UNCHANGED << urls, workers_input, prompted, max_workers, submitted, queue,
                    threads, task, early, late, results, successful_downloads,
                    failed_downloads, raised_at >>
    /\ UNCHANGED << fmtVars, cliVars >>

\* lines 339-343: one executor.submit per entry of urls, in order; after the
\* last one the main thread enters as_completed
Submit ==
    /\ pc = "submit"
    /\ InPoolBound(urls)
    /\ submitted < Len(urls)
    /\ submitted' = submitted + 1
    /\ queue' = Append(queue, submitted + 1)
    /\ task' = [ task EXCEPT ![submitted + 1].st = "queued" ]
    /\ threads' = ThreadsAfterSubmit(threads)
    /\ pc' = IF submitted + 1 = Len(urls) THEN "collect" ELSE "submit"
    /\ UNCHANGED << urls, workers_input, prompted, max_workers, pass, idx, cache, calls,
                    last_call, early, late, results, successful_downloads,
                    failed_downloads, raised_at, acc >>
    /\ UNCHANGED << fmtVars, cliVars >>

\* lines 345-348: as_completed yields the futures that had finished before it
\* was called in any order, then the others as they finish; each result is
\* appended.  After the last one the with block ends and the summary starts.
Collect ==
    /\ pc = "collect"
    /\ \E i \in (IF early # {} THEN early ELSE IF late # <<>> THEN { Head(late) } ELSE {}) :
          /\ results' = Append(results, task[i].result)
          /\ early' = early \ { i }
          /\ late' = IF early # {} THEN late ELSE Tail(late)
          /\ acc' = acc \cup { [ loc |-> "future",  of |-> i, who |-> 0, write |-> FALSE ],
                               [ loc |-> "results", of |-> 0, who |-> 0, write |-> TRUE ] }
    /\ pc' = IF AllYielded(Len(results) + 1) THEN "summary" ELSE "collect"
    /\ UNCHANGED << urls, workers_input, prompted, max_workers, pass, idx, cache, calls,
                    last_call, submitted, queue, threads, task, successful_downloads,
                    failed_downloads, raised_at >>
    /\ UNCHANGED << fmtVars, cliVars >>

\* lines 350-358: the two lists of the summary and their counts
Summary ==
    /\ pc = "summary"
    /\ successful_downloads' = SelectSeq(results, LAMBDA r : r.success)
    /\ failed_downloads' = SelectSeq(results, LAMBDA r : ~r.success)
    /\ pc' = "failed_urls"
    /\ UNCHANGED << urls, workers_input, prompted, max_workers, pass, idx, cache, calls,
                    last_call, submitted, queue, threads, task, early, late, results,
                    raised_at, acc >>
    /\ UNCHANGED << fmtVars, cliVars >>

\* the names bound in download_youtube_content when the summary runs: its
\* parameters, its locals and the module's globals it uses
BoundNames ==
    { "urls", "output_path", "list_formats", "max_workers", "audio_only",
      "playlist_count", "channel_count", "video_count", "content_summary",
      "results", "executor", "future_to_url", "future", "result",
      "successful_downloads", "failed_downloads", "print" }

\* reading a name that is not bound raises NameError
RaisesNameError(name) == name \notin BoundNames

\* lines 360-364: the failed URLs and their reasons
ReportFailed ==
    /\ pc = "failed_urls"
    /\ IF failed_downloads # <<>> /\ RaisesNameError("failed")
       THEN pc' = "raised" /\ raised_at' = 362
       ELSE pc' = "saved_to" /\ UNCHANGED raised_at
    /\ UNCHANGED << urls, workers_input, prompted, max_workers, pass, idx, cache, calls,
                    last_call, submitted, queue, threads, task, early, late, results,
                    successful_downloads, failed_downloads, acc >>
    /\ UNCHANGED << fmtVars, cliVars >>

\* lines 366-367: where the files were saved
ReportSaved ==
    /\ pc = "saved_to"
    /\ IF RaisesNameError("successful")
       THEN pc' = "raised" /\ raised_at' = 366
       ELSE pc' = "returned" /\ UNCHANGED raised_at
    /\ UNCHANGED << urls, workers_input, prompted, max_workers, pass, idx, cache, calls,
                    last_call, submitted, queue, threads, task, early, late, results,
                    successful_downloads, failed_downloads, acc >>
    /\ UNCHANGED << fmtVars, cliVars >>

(***************************************************************************)
(* The worker threads.                                                     *)
(***************************************************************************)
\* A worker takes the next work item and runs download_single_video up to
\* its retry loop (lines 157-229): the options, the cached classification of
\* line 211, the output template.
StartTask(i) ==
    /\ pc \in { "submit", "collect" }
    /\ CanStart(i)
    /\ queue' = Tail(queue)
    /\ CachedGetUrlInfo(urls[i])
    /\ task' = [ task EXCEPT ![i].st = "running", ![i].attempt = 1 ]
    /\ acc' = acc \cup CallAccesses(i)
    /\ UNCHANGED << pc, urls, workers_input, prompted, max_workers, pass, idx, submitted,
                    threads, early, late, results, successful_downloads,
                    failed_downloads, raised_at >>
    /\ UNCHANGED << fmtVars, cliVars >>

\* One attempt of the retry loop (lines 230-279).  A call that returns
\* completes its future, which as_completed will yield.
Attempt(i) ==
    /\ task[i].st = "running"
    /\ \E outcome \in PoolOutcomes(urls) :
          task' = [ task EXCEPT ![i] = RetryLoopStep(task[i], urls[i], outcome) ]
    /\ IF task'[i].st = "done"
       THEN /\ acc' = acc \cup { [ loc |-> "future", of |-> i, who |-> i, write |-> TRUE ] }
            /\ IF pc = "collect"
               THEN late' = Append(late, i) /\ UNCHANGED early
               ELSE early' = early \cup { i } /\ UNCHANGED late
       ELSE UNCHANGED << acc, early, late >>
    /\ UNCHANGED << pc, urls, workers_input, prompted, max_workers, pass, idx, cache,
                    calls, last_call, submitted, queue, threads, results,
                    successful_downloads, failed_downloads, raised_at >>
    /\ UNCHANGED << fmtVars, cliVars >>

Next ==
    \/ ListFormats
    \/ EnterDownload
    \/ Classify
    \/ Submit
    \/ Collect
    \/ Summary
    \/ ReportFailed
    \/ ReportSaved
    \/ \E i \in 1..Len(urls) : StartTask(i)
    \/ \E i \in 1..Len(urls) : Attempt(i)

Spec == Init /\ [][Next]_vars

(***************************************************************************)
(* The CLI's worker-count prompt on its own: any list of URLs, any answer. *)
(***************************************************************************)
InitCli ==
    /\ urls \in UrlLists
    /\ pc = "ask_workers"
    /\ workers_input = <<>>
    /\ prompted = FALSE
    /\ max_workers = 1
    /\ pass = 1
    /\ idx = 1
    /\ cache = <<>>
    /\ calls = [ u \in Range(urls) |-> 0 ]
    /\ last_call = NoCall
    /\ submitted = 0
    /\ queue = <<>>
    /\ threads = 0
    /\ task = [ i \in 1..Len(urls) |-> NewTask ]
    /\ early = {}
    /\ late = <<>>
    /\ results = <<>>
    /\ successful_downloads = <<>>
    /\ failed_downloads = <<>>
    /\ raised_at = 0
    /\ acc = {}
    /\ list_formats = FALSE
    /\ makedirs = FALSE
    /\ listed = <<>>
    /\ CliUnused

NextCli == AskWorkers

SpecCli == InitCli /\ [][NextCli]_vars

(***************************************************************************)
(* The CLI from its start to the worker-count prompt (download.py          *)
(* 370-437), where SpecCli goes on.                                        *)
(***************************************************************************)
InitMain ==
    /\ pc = "main"
    /\ argv \in { <<>>, << "--list-formats" >>, << "x" >> }
    /\ urls = <<>>
    /\ workers_input = <<>>
    /\ prompted = FALSE
    /\ max_workers = 1
    /\ pass = 1
    /\ idx = 1
    /\ cache = <<>>
    /\ calls = <<>>
    /\ last_call = NoCall
    /\ submitted = 0
    /\ queue = <<>>
    /\ threads = 0
    /\ task = <<>>
    /\ early = {}
    /\ late = <<>>
    /\ results = <<>>
    /\ successful_downloads = <<>>
    /\ failed_downloads = <<>>
    /\ raised_at = 0
    /\ acc = {}
    /\ list_formats = FALSE
    /\ makedirs = FALSE
    /\ listed = <<>>
    /\ user_input = <<>>
    /\ urls_list = <<>>
    /\ invalid_count = 0
    /\ inputs = <<>>
    /\ typed = <<>>
    /\ exit_status = <<>>
    /\ output_dir = <<>>
    /\ audio_only = FALSE

\* len(sys.argv) > 1 and sys.argv[1] == '--list-formats', line 371
ListFormatsMode == argv # <<>> /\ argv[1] = "--list-formats"

\* lines 372-373: the URL to list, taken as typed, and the call
AskListUrl ==
    /\ pc = "main"
    /\ ListFormatsMode
    /\ \E url \in { <<>>, << " " >>, << "x" >>, WatchUrl } :
          /\ inputs' = Append(inputs, [ prompt |-> "list_url", answer |-> url ])
          /\ urls' = << url >>
          /\ calls' = [ u \in { url } |-> 0 ]
    /\ task' = << NewTask >>
    /\ list_formats' = TRUE
    /\ max_workers' = DEFAULT_CONCURRENT_WORKERS
    /\ pc' = "call"
    /\ UNCHANGED << workers_input, prompted, pass, idx, cache, last_call, submitted,
                    queue, threads, early, late, results, successful_downloads,
                    failed_downloads, raised_at, acc, makedirs, listed, argv,
                    user_input, urls_list, invalid_count, typed, exit_status,
                    output_dir, audio_only >>

\* lines 408-420, run once the URL text is complete: exit(1) for a blank
\* text, parse it otherwise and exit(1) when no valid URL is found
Parse(text) ==
    /\ user_input' = text
    /\ IF strip(text) = <<>>
       THEN /\ exit_status' = << 1 >>
            /\ pc' = "exited"
            /\ UNCHANGED << urls, calls, task, invalid_count >>
       ELSE LET parsed == parse_multiple_urls(text)
            IN  /\ urls' = parsed.valid_urls
                /\ invalid_count' = parsed.invalid_count
                /\ calls' = [ u \in Range(parsed.valid_urls) |-> 0 ]
                /\ task' = [ i \in 1..Len(parsed.valid_urls) |-> NewTask ]
                /\ IF NoValidUrls(parsed.valid_urls)
                   THEN exit_status' = << 1 >> /\ pc' = "exited"
                   ELSE pc' = "ask_output" /\ UNCHANGED exit_status

\* line 393: the first prompt; a blank answer starts multi-line mode
AskUrls ==
    /\ pc = "main"
    /\ ~ListFormatsMode
    /\ \E a \in UrlAnswers :
          /\ inputs' = Append(inputs, [ prompt |-> "urls", answer |-> a.text ])
          /\ typed' = a.words
          /\ IF strip(a.text) = <<>>
             THEN /\ pc' = "multiline"
                  /\ user_input' = a.text
                  /\ UNCHANGED << urls, calls, task, invalid_count, exit_status >>
             ELSE Parse(a.text)
    /\ UNCHANGED << workers_input, prompted, max_workers, pass, idx, cache, last_call,
                    submitted, queue, threads, early, late, results,
                    successful_downloads, failed_downloads, raised_at, acc, fmtVars,
                    argv, urls_list, output_dir, audio_only >>

\* (mutant) only an empty line ends multi-line mode
EndsLinesIfEmpty(line) == line = <<>>

\* line.strip() == "", line 402
EndsLines(line) == strip(line) = <<>>

\* lines 400-406: one line of multi-line mode; a blank line ends the mode and
\* the lines kept are joined
ReadLine ==
    /\ pc = "multiline"
    /\ \E a \in LineAnswers :
          /\ EndsLines(a.text) \/ Len(urls_list) < MaxUrls
          /\ inputs' = Append(inputs, [ prompt |-> "line", answer |-> a.text ])
          /\ IF EndsLines(a.text)
             THEN /\ Parse(join(urls_list))
                  /\ UNCHANGED << urls_list, typed >>
             ELSE /\ urls_list' = Append(urls_list, a.text)
                  /\ typed' = typed \o a.words
                  /\ UNCHANGED << pc, user_input, urls, calls, task, invalid_count,
                                  exit_status >>
    /\ UNCHANGED << workers_input, prompted, max_workers, pass, idx, cache, last_call,
                    submitted, queue, threads, early, late, results,
                    successful_downloads, failed_downloads, raised_at, acc, fmtVars,
                    argv, output_dir, audio_only >>

\* lines 422-424
AskOutputDir ==
    /\ pc = "ask_output"
    /\ \E raw \in { <<>>, << "x", " " >> } :
          /\ inputs' = Append(inputs, [ prompt |-> "output_dir", answer |-> raw ])
          /\ output_dir' = strip(raw)
    /\ pc' = "ask_format"
    /\ UNCHANGED << urls, workers_input, prompted, max_workers, pass, idx, cache, calls,
                    last_call, submitted, queue, threads, task, early, late, results,
                    successful_downloads, failed_downloads, raised_at, acc, fmtVars,
                    argv, user_input, urls_list, invalid_count, typed, exit_status,
                    audio_only >>

\* lines 426-437
AskFormat ==
    /\ pc = "ask_format"
    /\ \E raw \in { <<>>, << "2", " " >> } :
          /\ inputs' = Append(inputs, [ prompt |-> "format", answer |-> raw ])
          /\ audio_only' = (strip(raw) = << "2" >>)
    /\ pc' = "ask_workers"
    /\ UNCHANGED << urls, workers_input, prompted, max_workers, pass, idx, cache, calls,
                    last_call, submitted, queue, threads, task, early, late, results,
                    successful_downloads, failed_downloads, raised_at, acc, fmtVars,
                    argv, user_input, urls_list, invalid_count, typed, exit_status,
                    output_dir >>

NextMain ==
    \/ AskListUrl
    \/ ListFormats
    \/ AskUrls
    \/ ReadLine
    \/ AskOutputDir
    \/ AskFormat

SpecMain == InitMain /\ [][NextMain]_vars


(***************************************************************************)
(* Properties.                                                             *)
(***************************************************************************)
Tasks == 1..Len(urls)

Done == { i \in Tasks : task[i].st = "done" }

\* number of entries of sequence s equal to r
Count(s, r) == Cardinality({ k \in 1..Len(s) : s[k] = r })

\* C1: whatever the per-URL outcomes, download_youtube_content prints its
\* summary and returns normally: the run never raises, neither because of a
\* failed download nor in a step of the summary itself.
C1_RunNeverRaises == pc # "raised" /\ raised_at = 0

\* C2: the download is attempted at most MAX_RETRIES times per URL, attempt
\* n+1 is started only after attempt n raised, and a third attempt that
\* raises ends the call with the result success = False, 'Failed after 3
\* attempts', not with an exception.
C2_AtMostThreeAttempts ==
    \A i \in Tasks :
        /\ task[i].attempt <= MAX_RETRIES
        /\ task[i].st = "running" => task[i].last_exception = task[i].attempt - 1
        /\ task[i].st = "done" =>
              /\ task[i].last_exception \in { task[i].attempt - 1, task[i].attempt }
              /\ task[i].last_exception = task[i].attempt =>
                    /\ task[i].attempt = MAX_RETRIES
                    /\ task[i].result.success = FALSE
                    /\ task[i].result.message = "Failed after 3 attempts"

C2_Witness ==
    \E i \in Tasks :
        /\ task[i].st = "done"
        /\ task[i].attempt = MAX_RETRIES
        /\ task[i].last_exception = MAX_RETRIES
        /\ task[i].result.message = "Failed after 3 attempts"

\* C3: at every moment the number of download_single_video calls in progress
\* is at most max_workers.
C3_AtMostMaxWorkersRunning == Cardinality(Running) <= max_workers

C3_Witness ==
    /\ Cardinality(Running) = max_workers
    /\ queue # <<>>

\* C4: one task is submitted per entry of urls, duplicates included, and the
\* summary starts only when each of them has returned: results then holds
\* exactly the results of the tasks, one per entry, and the successful and
\* failed counts add up to len(urls).
C4_OneResultPerUrl ==
    /\ submitted <= Len(urls)
    /\ pc \in { "summary", "failed_urls", "saved_to", "raised", "returned" } =>
          /\ submitted = Len(urls)
          /\ Len(results) = Len(urls)
          /\ \A i \in Tasks : task[i].st = "done" /\ task[i].result.url = urls[i]
          /\ \A i \in Tasks :
                Count(results, task[i].result)
                    = Cardinality({ j \in Tasks : task[j].result = task[i].result })
    /\ pc \in { "failed_urls", "saved_to", "raised", "returned" } =>
          Len(successful_downloads) + Len(failed_downloads) = Len(urls)

C4_Witness ==
    /\ pc = "failed_urls"
    /\ Len(urls) = 2
    /\ urls[1] = urls[2]
    /\ Len(successful_downloads) = 1
    /\ Len(failed_downloads) = 1

\* C5: there is no cancellation: once a download has raised (in any attempt,
\* the last one included), every other URL of the run is still started,
\* retried and brought to its own result.
\* As a property of states: once some download has raised, every other task
\* that is not done can still take its next step (be submitted, be started as
\* soon as a worker thread is free, make its next attempt), and while it
\* waits in the queue some call is running or can be started; every finished task
\* holds the result of its own URL, and the pool is left only when all have
\* finished.
C5_NoCancellation ==
    /\ \A i \in Tasks :
          (\E j \in Tasks \ { i } : task[j].last_exception > 0) =>
              /\ task[i].st = "new" => ENABLED Submit
              /\ task[i].st = "queued" =>
                    IF Head(queue) = i /\ Cardinality(Running) < threads
                    THEN ENABLED StartTask(i)
                    ELSE Running # {} \/ ENABLED StartTask(Head(queue))
              /\ task[i].st = "running" => ENABLED Attempt(i)
    /\ \A i \in Tasks : task[i].st = "done" => task[i].result.url = urls[i]
    /\ pc \in { "summary", "failed_urls", "saved_to", "raised", "returned" } =>
          \A i \in Tasks : task[i].st = "done"

C5_Witness ==
    /\ max_workers = 1
    /\ Len(urls) = 2
    /\ task[1].st = "done"
    /\ task[1].result.message = "Failed after 3 attempts"
    /\ task[2].st = "done"
    /\ task[2].result.success
    /\ task[2].attempt = 2

\* the answer, stripped, is an optional sign followed by digits
IsIntegerAnswer(a) ==
    LET d == IF a # <<>> /\ a[1] \in { "+", "-" } THEN Tail(a) ELSE a
    IN  d # <<>> /\ \A k \in 1..Len(d) : d[k] \in DigitChars

\* C6: the worker count the CLI hands to the pool is in 1..5: with more than
\* one URL an empty or non-integer answer gives 3 and an integer answer n
\* gives min(5, max(1, n)); with one URL it is 1 and no prompt is shown.
C6_WorkerCountClamped ==
    pc = "call" =>
        /\ max_workers \in 1..5
        /\ Len(urls) = 1 => max_workers = 1 /\ ~prompted
        /\ Len(urls) > 1 =>
              /\ prompted
              /\ IF IsIntegerAnswer(strip(workers_input))
                 THEN max_workers = Min(5, Max(1, int(workers_input)))
                 ELSE max_workers = 3

C6_Witness ==
    /\ pc = "call"
    /\ prompted
    /\ workers_input = << "-", "2", " " >>
    /\ max_workers = 1

\* two accesses to the same piece of state, the first a write, by different
\* threads of which the second is a download_single_video call that runs
\* while the first does (or the first is the main thread)
ByRunningCall(b) == b.who # 0 /\ task[b.who].st = "running"

Shared(a, b) ==
    /\ ByRunningCall(b)
    /\ a.write
    /\ a.loc = b.loc
    /\ a.of = b.of
    /\ a.who # b.who
    /\ a.who = 0 \/ ByRunningCall(a)

\* C7 as stated: apart from the read-only output path, no state written by a
\* download_single_video call or by the main thread is read or written by
\* another download_single_video call running at the same time.
C7_NoSharedMutableState ==
    \A b \in acc : ByRunningCall(b) =>
        \A a \in acc : Shared(a, b) => a.loc = "output_path"

\* C7 as amended: the only state so shared is the output path, which no
\* call writes, and the lru_cache of get_url_info, which the main thread and
\* every call update.
C7_OnlyCacheShared ==
    /\ \A b \in acc : ByRunningCall(b) =>
          \A a \in acc : Shared(a, b) => a.loc \in { "output_path", "lru_cache" }
    /\ \A a \in acc : a.loc = "output_path" /\ a.write => a.who = 0

C7_Witness ==
    \E i, j \in Running :
        /\ i # j
        /\ [ loc |-> "lru_cache", of |-> 0, who |-> i, write |-> TRUE ] \in acc
        /\ [ loc |-> "lru_cache", of |-> 0, who |-> j, write |-> TRUE ] \in acc
        /\ [ loc |-> "lru_cache", of |-> 0, who |-> 0, write |-> TRUE ] \in acc

\* C8 as stated: over a whole run the classification extract_info call is
\* made at most once per distinct URL, for any number of URLs.
C8_AtMostOneCallPerUrl == \A u \in DOMAIN calls : calls[u] <= 1

\* C8 as amended: ... provided the run has at most 128 (the cache's maxsize)
\* distinct URLs.
C8_AtMostOneCallWithinCacheSize ==
    Cardinality(Range(urls)) <= maxsize => \A u \in DOMAIN calls : calls[u] <= 1

C8_Witness ==
    /\ pc = "summary"
    /\ Len(urls) = 2
    /\ urls[1] = urls[2]
    /\ calls[urls[1]] = 1

\* C9: the content type returned by get_url_info and get_content_type is
\* one of 'video', 'playlist' or 'channel', whatever the library returns.
C9_TypeIsVideoPlaylistOrChannel ==
    \A k \in 1..Len(cache) : cache[k].res.type \in { "video", "playlist", "channel" }

\* the fields of the URL's query string and their names
QueryFields(url) == SplitAmp(urlparse_query(url))

FieldName(f) == IF IndexOf(f, "=") = 0 THEN f ELSE SubSeq(f, 1, IndexOf(f, "=") - 1)

HasListParameter(url) ==
    \E k \in 1..Len(QueryFields(url)) : FieldName(QueryFields(url)[k]) = << "list" >>

HasListParameterWithValue(url) ==
    \E k \in 1..Len(QueryFields(url)) :
        LET f == QueryFields(url)[k]
        IN  Len(f) > 2 /\ f[1] = "list" /\ f[2] = "="

\* C10 as stated: when the library gives no information (it raises or
\* returns None), the type is 'channel' if the URL contains '/@',
\* '/channel/', '/c/' or '/user/', otherwise 'playlist' if its query string
\* has a 'list' parameter, otherwise 'video', the same in both cases.
C10_ClassifiedFromUrlText ==
    last_call.resp.kind \in { "raise", "none" } =>
        last_call.res.type =
            IF HasChannelPath(last_call.url) THEN "channel"
            ELSE IF HasListParameter(last_call.url) THEN "playlist"
            ELSE "video"

\* C10 as amended: ... otherwise 'playlist' if its query string has a 'list'
\* parameter with a non-empty value ...
C10_ClassifiedFromUrlTextNonBlank ==
    last_call.resp.kind \in { "raise", "none" } =>
        last_call.res.type =
            IF HasChannelPath(last_call.url) THEN "channel"
            ELSE IF HasListParameterWithValue(last_call.url) THEN "playlist"
            ELSE "video"

C10_Witness ==
    /\ last_call.resp.kind = "none"
    /\ last_call.url = ChannelListUrl
    /\ last_call.res.type = "channel"

\* the entries of Words that hold 'youtube.com' or 'youtu.be' and one of
\* '/watch?', '/playlist?', '/@', '/channel/', '/c/', '/user/', 'youtu.be/'
ValidWords == { WatchUrl, ChannelListUrl, ShortUrl }

IsValidWord(w) == w \in ValidWords

\* C11: parse_multiple_urls returns, in the order of the input and with
\* duplicates kept, exactly the non-empty entries that pass the YouTube
\* check, whichever mix of commas, spaces, tabs and newlines separates them;
\* every other non-empty entry is counted as skipped.
\* As a property of states: once the text is parsed, urls is the sequence
\* of the valid entries typed, whatever was typed between, before and after
\* them, and invalid_count is the number of the other entries.
C11_ParseKeepsValidInOrder ==
    pc \in { "exited", "ask_output", "ask_format", "ask_workers" } =>
        /\ urls = SelectSeq(typed, IsValidWord)
        /\ invalid_count = Len(typed) - Len(urls)

C11_Witness ==
    /\ pc = "ask_output"
    /\ typed = << ShortUrl, << "youtube.com", "x" >> >>
    /\ Contains(user_input, << ",", " " >>)
    /\ urls = << ShortUrl >>
    /\ invalid_count = 1

\* C12: with list_formats = True, download_youtube_content lists the
\* formats of the first URL and returns: it creates no output directory,
\* submits no download, starts no retry loop, and an exception of the
\* library during the listing is caught and printed, not raised.
C12_ListFormatsOnly ==
    list_formats =>
        /\ pc \in { "call", "listed" }
        /\ raised_at = 0
        /\ ~makedirs
        /\ submitted = 0 /\ threads = 0 /\ queue = <<>>
        /\ \A i \in Tasks : task[i] = NewTask
        /\ cache = <<>> /\ results = <<>>
        /\ pc = "call" => listed = <<>>
        /\ pc = "listed" =>
              /\ Len(listed) = 1
              /\ listed[1].url = urls[1]
              /\ ~listed[1].raised

C12_Witness ==
    /\ list_formats
    /\ pc = "listed"
    /\ Len(urls) > 1
    /\ listed[1].printed

\* the state of a call of download_single_video for url, considered alone,
\* after the library's attempts went as in outcomes
RECURSIVE Alone(_, _, _)
Alone(t, url, outcomes) ==
    IF outcomes = <<>> \/ t.st # "running" THEN t
    ELSE Alone(RetryLoopStep(t, url, Head(outcomes)), url, Tail(outcomes))

AloneResult(i) ==
    Alone([ NewTask EXCEPT !.st = "running", !.attempt = 1 ], urls[i],
          task[i].outcomes).result

\* C13: the delay slept after failed attempt n, n < MAX_RETRIES, is
\* RETRY_DELAY * 2^(n-1) seconds, that is 2 and then 4, each the double of
\* the one before; nothing is slept after the last failed attempt or after
\* an attempt that returned.
\* As a property of states: the delays a call has slept so far are these
\* values in this order, and there are as many of them as attempts before
\* the last one allowed that raised.
C13_BackoffDoubles ==
    \A i \in Tasks :
        LET slept == task[i].slept
            outcomes == task[i].outcomes
        IN  /\ \A n \in 1..Len(slept) : slept[n] = RETRY_DELAY * (2 ^ (n - 1))
            /\ \A n \in 2..Len(slept) : slept[n] = 2 * slept[n - 1]
            /\ Len(slept) >= 1 => slept[1] = 2
            /\ Len(slept) >= 2 => slept[2] = 4
            /\ Len(slept) =
                  Cardinality({ n \in 1..Len(outcomes) :
                                  outcomes[n] = "raise" /\ n < MAX_RETRIES })

C13_Witness ==
    \E i \in Tasks :
        /\ task[i].st = "done"
        /\ task[i].outcomes = << "raise", "raise", "raise" >>
        /\ task[i].slept = << 2, 4 >>

\* C14: for fixed per-URL outcomes the multiset of results and the counts
\* of successful and failed downloads are the same under every interleaving
\* of the workers and every completion order; only the order of results
\* may differ.
\* As a property of states: when the pool is left, results holds, in some
\* order, for each entry of urls the result its call gives alone for the
\* outcomes its attempts had (the result each call returned is that one),
\* and the two counts of the summary are the numbers of those that
\* succeeded and failed.
C14_ResultsIndependentOfInterleaving ==
    pc \in { "summary", "failed_urls", "saved_to", "raised", "returned" } =>
        /\ \A i \in Tasks : task[i].result = AloneResult(i)
        /\ Len(results) = Len(urls)
        /\ \A i \in Tasks :
              Count(results, task[i].result)
                  = Cardinality({ j \in Tasks : task[j].result = task[i].result })
        /\ pc # "summary" =>
              /\ Len(successful_downloads)
                    = Cardinality({ i \in Tasks : task[i].result.success })
              /\ Len(failed_downloads)
                    = Cardinality({ i \in Tasks : ~task[i].result.success })

\* results in the order opposite to the submissions
C14_Witness ==
    /\ pc = "failed_urls"
    /\ Len(urls) = 2
    /\ urls[1] # urls[2]
    /\ task[1].outcomes = << "raise", "none" >>
    /\ task[2].outcomes = << "video" >>
    /\ results[1].url = urls[2]
    /\ Len(successful_downloads) = 1
    /\ Len(failed_downloads) = 1

\* C15: only exceptions are retried: the first attempt that returns without
\* raising ends the loop at that attempt, with success False when the
\* library returned None or a playlist without entries and True otherwise,
\* and no attempt is made after it.
\* As a property of states: every attempt before the last one made raised;
\* a call whose last attempt returned is done at that attempt, with that
\* success.
C15_OnlyExceptionsRetried ==
    \A i \in Tasks :
        LET outcomes == task[i].outcomes
            made == Len(task[i].outcomes)
        IN  /\ \A n \in 1..(made - 1) : outcomes[n] = "raise"
            /\ task[i].st = "running" => task[i].attempt = made + 1
            /\ (made >= 1 /\ outcomes[made] # "raise") =>
                  /\ task[i].st = "done"
                  /\ task[i].attempt = made
                  /\ task[i].result.success
                        = (outcomes[made] \notin { "none", "playlist_empty" })

C15_Witness ==
    \E i \in Tasks :
        /\ task[i].st = "done"
        /\ task[i].outcomes = << "raise", "playlist_empty" >>
        /\ task[i].attempt = 2
        /\ ~task[i].result.success

\* C16: download_single_video is total: whatever the outcomes of its
\* attempts, it ends after at most MAX_RETRIES attempts and returns a dict
\* whose 'url' is its argument and whose 'success' is a boolean; it never
\* raises to the pool, and the 'Unexpected error' return after the loop is
\* never reached.
C16_DownloadSingleVideoTotal ==
    \A i \in Tasks :
        /\ task[i].st \in { "new", "queued", "running", "done" }
        /\ Len(task[i].outcomes) <= MAX_RETRIES
        /\ Len(task[i].outcomes) = MAX_RETRIES => task[i].st = "done"
        /\ task[i].st = "running" =>
              \A outcome \in DownloadOutcomes :
                  RetryLoopStep(task[i], urls[i], outcome).st \in { "running", "done" }
        /\ task[i].st = "done" =>
              /\ task[i].result.url = urls[i]
              /\ task[i].result.success \in BOOLEAN
              /\ task[i].result.message # "Unexpected error"

C16_Witness ==
    \E i \in Tasks :
        /\ task[i].st = "done"
        /\ Len(task[i].outcomes) = MAX_RETRIES
        /\ task[i].outcomes[MAX_RETRIES] = "raise"
        /\ task[i].result.url = urls[i]
        /\ ~task[i].result.success

\* text that str.strip() leaves empty
Blank(text) == \A k \in 1..Len(text) : text[k] \in { " ", "\t", "\n" }

\* C17: in the CLI, when no URL text is entered (a blank answer to the first
\* prompt, then a blank first line in multi-line mode) or the text holds
\* no valid YouTube URL, the program exits with status 1 before it asks for
\* the output directory, the format or the worker count, and no
\* classification or download call is made; multi-line mode is entered
\* only after a blank answer to the first prompt and ends at the first
\* blank line.
C17_ExitsBeforeOtherPrompts ==
    /\ (pc = "exited") <=> (exit_status = << 1 >>)
    /\ exit_status \in { <<>>, << 1 >> }
    /\ pc = "exited" =>
          /\ SelectSeq(typed, IsValidWord) = <<>>
          /\ \A k \in 1..Len(inputs) : inputs[k].prompt \in { "urls", "line" }
          /\ ~prompted
          /\ cache = <<>> /\ last_call = NoCall
          /\ submitted = 0 /\ ~makedirs /\ listed = <<>>
    /\ pc \in { "ask_output", "ask_format", "ask_workers" } =>
          SelectSeq(typed, IsValidWord) # <<>>
    /\ pc = "multiline" => Blank(inputs[1].answer)
    /\ \A k \in 1..Len(inputs) :
          inputs[k].prompt = "line" =>
              /\ inputs[1].prompt = "urls" /\ Blank(inputs[1].answer)
              /\ \A j \in 2..(k - 1) :
                    inputs[j].prompt = "line" /\ ~Blank(inputs[j].answer)
              /\ Blank(inputs[k].answer) => pc # "multiline"

C17_Witness ==
    /\ pc = "exited"
    /\ exit_status = << 1 >>
    /\ Len(inputs) = 2
    /\ inputs[1] = [ prompt |-> "urls", answer |-> << " " >> ]
    /\ inputs[2] = [ prompt |-> "line", answer |-> <<>> ]

====
